---------------------------- MODULE Spec2Model ----------------------------
(***************************************************************************)
(* A model of app.py: the numeral converter (cn_upper_to_float), the       *)
(* amount extractor (find_amount_strict), the verification index           *)
(* (InvoiceVerifier) and the batch pipeline (run_process_pipeline).        *)
(*                                                                         *)
(* Conventions.  Amounts are integers in cents (283.81 is 28381).  A text  *)
(* (numeral string, file name, invoice number, seller name) is a sequence  *)
(* of tokens; the CJK glyphs are written in pinyin, because the module is  *)
(* ASCII: the financial glyphs in capitals ("ER" for the glyph of 2 used   *)
(* on invoices), the everyday ones in lower case ("er").                   *)
(***************************************************************************)
EXTENDS Integers, Sequences, FiniteSets, TLC

VARIABLES
    files,                  \* all_files: the input tree, in os.walk order
    pc,                     \* position in the running function
    i,                      \* index of the loop the function is in
    trip_pool,              \* run_process_pipeline: trip_pool
    invoice_pdf_pool,       \* run_process_pipeline: invoice_pdf_pool
    excel_rows,             \* run_process_pipeline: excel_rows
    processed_source_files, \* run_process_pipeline: processed_source_files
    merged_dir,             \* the files written to Merged_PDFs
    noxml_dir,              \* the files copied to No_XML_PDFs
    missing_files,          \* run_process_pipeline: missing_files
    matched,                \* every (principal, trip entry) selection made
    arg,                    \* the argument of the pure function under check
    ret                     \* its result

vars == <<files, pc, i, trip_pool, invoice_pdf_pool, excel_rows,
          processed_source_files, merged_dir, noxml_dir, missing_files,
          matched, arg, ret>>

pipeline_vars == <<files, trip_pool, invoice_pdf_pool, excel_rows,
                   processed_source_files, merged_dir, noxml_dir,
                   missing_files, matched>>

---------------------------------------------------------------------------
(* Sequences and numbers                                                   *)

Abs(x) == IF x < 0 THEN -x ELSE x

Range(s) == {s[k] : k \in 1..Len(s)}

\* Python's `a in b` on strings: a is a contiguous part of b.
IsInfix(a, b) ==
    \E k \in 0..(Len(b) - Len(a)) : SubSeq(b, k + 1, k + Len(a)) = a

\* s[:n]
Prefix(s, n) == IF Len(s) >= n THEN SubSeq(s, 1, n) ELSE s

SeqsUpTo(S, n) == UNION {[1..k -> S] : k \in 0..n}

---------------------------------------------------------------------------
(* cn_upper_to_float                                                       *)

\* CN_NUM
CN_NUM ==
    [g \in {"LING", "YI", "ER", "SAN", "SI", "WU", "LIU", "QI", "BA", "JIU",
            "yi", "er", "san", "si", "wu", "liu", "qi", "ba", "jiu", "liang"} |->
       CASE g \in {"LING"} -> 0
         [] g \in {"YI", "yi"} -> 1
         [] g \in {"ER", "er", "liang"} -> 2
         [] g \in {"SAN", "san"} -> 3
         [] g \in {"SI", "si"} -> 4
         [] g \in {"WU", "wu"} -> 5
         [] g \in {"LIU", "liu"} -> 6
         [] g \in {"QI", "qi"} -> 7
         [] g \in {"BA", "ba"} -> 8
         [] g \in {"JIU", "jiu"} -> 9]

\* CN_UNIT ("YI8" is the glyph of 100000000)
CN_UNIT ==
    [g \in {"SHI", "shi", "BAI", "bai", "QIAN", "qian", "WAN", "YI8"} |->
       CASE g \in {"SHI", "shi"} -> 10
         [] g \in {"BAI", "bai"} -> 100
         [] g \in {"QIAN", "qian"} -> 1000
         [] g = "WAN" -> 10000
         [] g = "YI8" -> 100000000]

\* The separators of re.split(r'[yuan]'): both glyphs of the currency unit.
IsYuan(g) == g \in {"YUAN", "yuan"}

\* The place of the first separator in s at or after k, Len(s) + 1 if none.
RECURSIVE NextYuan(_, _)
NextYuan(s, k) ==
    IF k > Len(s) THEN Len(s) + 1
    ELSE IF IsYuan(s[k]) THEN k
    ELSE NextYuan(s, k + 1)

\* parts[0] of re.split
integer_str(cn_str) == SubSeq(cn_str, 1, NextYuan(cn_str, 1) - 1)

\* parts[1] of re.split if there is one, else ""
decimal_str(cn_str) ==
    LET first == NextYuan(cn_str, 1)
    IN  IF first > Len(cn_str) THEN <<>>
        ELSE SubSeq(cn_str, first + 1, NextYuan(cn_str, first + 1) - 1)

\* parse_step without `curr_digit = 0` after a unit below WAN.
parse_step_carry_digit(st, char) ==
    IF char \in DOMAIN CN_NUM THEN [st EXCEPT !.curr_digit = CN_NUM[char]]
    ELSE IF char \in DOMAIN CN_UNIT THEN
        IF char \in {"WAN", "YI8"}
        THEN [val |-> (st.val + st.unit_val + st.curr_digit) * CN_UNIT[char],
              unit_val |-> 0, curr_digit |-> 0]
        ELSE [st EXCEPT !.unit_val = st.unit_val + st.curr_digit * CN_UNIT[char]]
    ELSE st

\* One turn of parse_section's loop, from the state st = [val, unit_val, curr_digit].
parse_step(st, char) ==
    IF char \in DOMAIN CN_NUM THEN [st EXCEPT !.curr_digit = CN_NUM[char]]
    ELSE IF char \in DOMAIN CN_UNIT THEN
        IF char \in {"WAN", "YI8"}
        THEN [val |-> (st.val + st.unit_val + st.curr_digit) * CN_UNIT[char],
              unit_val |-> 0, curr_digit |-> 0]
        ELSE [st EXCEPT !.unit_val = st.unit_val + st.curr_digit * CN_UNIT[char],
                        !.curr_digit = 0]
    ELSE st

RECURSIVE parse_loop(_, _, _)
parse_loop(s, k, st) ==
    IF k > Len(s) THEN st ELSE parse_loop(s, k + 1, parse_step(st, s[k]))

\* parse_section(s): the integer part, in units.
parse_section(s) ==
    LET st == parse_loop(s, 1, [val |-> 0, unit_val |-> 0, curr_digit |-> 0])
    IN  st.val + st.unit_val + st.curr_digit

\* The loop over decimal_str, from st = [decimal_val, curr_digit]; decimal_val in cents.
decimal_step(st, char) ==
    IF char \in DOMAIN CN_NUM THEN [st EXCEPT !.curr_digit = CN_NUM[char]]
    ELSE IF char = "JIAO"
        THEN [decimal_val |-> st.decimal_val + st.curr_digit * 10, curr_digit |-> 0]
    ELSE IF char = "FEN"
        THEN [decimal_val |-> st.decimal_val + st.curr_digit, curr_digit |-> 0]
    ELSE st

RECURSIVE decimal_loop(_, _, _)
decimal_loop(s, k, st) ==
    IF k > Len(s) THEN st ELSE decimal_loop(s, k + 1, decimal_step(st, s[k]))

\* decimal_val after the loop, in cents.
decimal_val(s) == decimal_loop(s, 1, [decimal_val |-> 0, curr_digit |-> 0]).decimal_val

\* total and decimal_val as the function has them before its return.
cn_parts(cn_str) ==
    IF cn_str = <<>> THEN [total |-> 0, cents |-> 0]
    ELSE [total |-> parse_section(integer_str(cn_str)),
          cents |-> decimal_val(decimal_str(cn_str))]

\* round(total + decimal_val, 2), in cents.
rounded(parts) == parts.total * 100 + parts.cents

\* cn_upper_to_float(cn_str), in cents.
cn_upper_to_float(cn_str) == rounded(cn_parts(cn_str))

---------------------------------------------------------------------------
(* The canonical renderer of the round trip (the repository has none: it   *)
(* is the one the specification's test generator is said to use).          *)

DigitGlyph == <<"YI", "ER", "SAN", "SI", "WU", "LIU", "QI", "BA", "JIU">>

\* The digits of m (below 10000) from position u (1000, 100, 10, 1) down: a
\* digit with its multiplier, one LING for a gap between two written digits.
RECURSIVE RenderSection(_, _, _, _)
RenderSection(m, u, started, gap) ==
    IF u = 0 THEN <<>>
    ELSE LET d == (m \div u) % 10
             unit == CASE u = 1000 -> <<"QIAN">> [] u = 100 -> <<"BAI">>
                       [] u = 10 -> <<"SHI">> [] OTHER -> <<>>
         IN  IF d = 0 THEN RenderSection(m, u \div 10, started, started)
             ELSE (IF gap THEN <<"LING">> ELSE <<>>) \o <<DigitGlyph[d]>> \o unit
                  \o RenderSection(m, u \div 10, TRUE, FALSE)

\* yuan in 0..99999999 and cents in 0..99, as written on an invoice.
Render(yuan, cents) ==
    LET hi == yuan \div 10000
        lo == yuan % 10000
        jiao == cents \div 10
        fen == cents % 10
        int == IF yuan = 0 THEN <<"LING">>
               ELSE (IF hi > 0 THEN RenderSection(hi, 1000, FALSE, FALSE) \o <<"WAN">>
                     ELSE <<>>)
                    \o (IF hi > 0 /\ lo > 0 /\ lo < 1000 THEN <<"LING">> ELSE <<>>)
                    \o RenderSection(lo, 1000, FALSE, FALSE)
        dec == IF cents = 0 THEN <<"ZHENG">>
               ELSE (IF jiao > 0 THEN <<DigitGlyph[jiao], "JIAO">>
                     ELSE IF yuan > 0 THEN <<"LING">> ELSE <<>>)
                    \o (IF fen > 0 THEN <<DigitGlyph[fen], "FEN">> ELSE <<>>)
    IN  int \o <<"YUAN">> \o dec

\* 283.81 as the docstring of cn_upper_to_float writes it.
Example28381 == <<"ER", "BAI", "BA", "SHI", "SAN", "YUAN", "BA", "JIAO", "YI", "FEN">>

---------------------------------------------------------------------------
(* find_amount_strict                                                      *)
(*                                                                         *)
(* A text is known by what the function's patterns find in it: chars, its  *)
(* length; cn, the numeral run that upper_pattern captures (<<>> when it   *)
(* does not match); lowers, the figures that lower_pattern finds, in cents.*)
(* A status is the words of the string and the two amounts it names.       *)

Note(words) == [words |-> words, upper |-> 0, lower |-> 0]

NoteBlank == Note(<<"kongbai_neirong">>)                       \* "blank content"
NoteNormal == Note(<<"zhengchang">>)                           \* "normal"
NoteNormalNoLower == Note(<<"zhengchang", "wu_xiaoxie">>)      \* "normal (no figure)"
NoteUsedLower == Note(<<"shiyong_xiaoxie", "weidudao_daxie">>) \* "figure used (no numeral read)"
NoteNoAmount == Note(<<"jinggao", "weidudao_jine">>)           \* "warning: no amount read"
NoteMismatch(u, l) ==                                          \* "numeral and figure differ (u, l)"
    [words |-> <<"warn_sign", "daxiaoxie_bufu">>, upper |-> u, lower |-> l]

\* The pairs of the amounts used here that are 0.10 apart and whose difference
\* in binary floating point exceeds 0.1: 283.81 - 283.71 is 0.10000000000002274
\* (0.3 - 0.2 is 0.09999999999999998 and is not one of them).
BinaryOverTenth == {{28381, 28371}}

\* abs(amount_upper - amount_lower) > 0.1, on floats.
differs(u, l) ==
    \/ Abs(u - l) > 10
    \/ Abs(u - l) = 10 /\ {u, l} \in BinaryOverTenth

\* amount_upper after lines 133-147: the numeral run's value when the run is
\* longer than one glyph, else 0 (has_upper is amount_upper > 0).
upper_amount(cn) == IF Len(cn) > 1 THEN cn_upper_to_float(cn) ELSE 0

\* amount_lower after lines 152-166: the first of lower_matches within
\* 0.01 .. 5000000, else 0 (has_lower is amount_lower > 0).
RECURSIVE first_lower(_, _)
first_lower(lowers, k) ==
    IF k > Len(lowers) THEN 0
    ELSE IF 1 <= lowers[k] /\ lowers[k] <= 500000000 THEN lowers[k]
    ELSE first_lower(lowers, k + 1)

\* The decision of lines 128 and 171-185.
decide(chars, amount_upper, amount_lower) ==
    IF chars = 0 THEN [amount |-> 0, note |-> NoteBlank]
    ELSE IF amount_upper > 0 THEN
        IF amount_lower > 0 THEN
            IF differs(amount_upper, amount_lower)
            THEN [amount |-> amount_upper,
                  note |-> NoteMismatch(amount_upper, amount_lower)]
            ELSE [amount |-> amount_upper, note |-> NoteNormal]
        ELSE [amount |-> amount_upper, note |-> NoteNormalNoLower]
    ELSE IF amount_lower > 0 THEN [amount |-> amount_lower, note |-> NoteUsedLower]
    ELSE [amount |-> 0, note |-> NoteNoAmount]

find_amount_strict(text) ==
    decide(text.chars, upper_amount(text.cn), first_lower(text.lowers, 1))

---------------------------------------------------------------------------
(* Files and what the extractors read from them                            *)
(*                                                                         *)
(* A file is [scope, sub, name, doc]: main() saves upload number scope     *)
(* under input/scope_<scope>, sub is the directory inside it ("" for the   *)
(* scope directory itself) and name the base name, its extension last.     *)
(* doc is what the readers get out of the file: ok (the XML parses; the    *)
(* PDF opens and has a page), and for an XML the tag values num, date,     *)
(* seller, amount; for a PDF the first page's text: chars (its length),    *)
(* num, date and seller as the patterns find them, cn and lowers as in     *)
(* find_amount_strict, labels (the invoice labels the text contains).      *)

path(f) == [scope |-> f.scope, sub |-> f.sub, name |-> f.name]

\* os.path.dirname
folder(p) == <<p.scope, p.sub>>

\* The upload (origin group) a path belongs to: its scope_<n> directory.
origin(p) == p.scope

ext(name) == IF name = <<>> THEN "" ELSE name[Len(name)]

\* os.path.splitext(name)[0]
stem(name) == SubSeq(name, 1, Len(name) - 1)

xml_files(all) == LET T(f) == ext(f.name) = ".xml" IN SelectSeq(all, T)

pdf_files(all) == LET T(f) == ext(f.name) = ".pdf" IN SelectSeq(all, T)

NoneInfo ==
    [some |-> FALSE, num |-> <<>>, date |-> "", seller |-> <<>>, amount |-> 0,
     filename |-> <<>>, note |-> Note(<<>>)]

\* parse_xml_invoice_data: None when the file does not parse.
parse_xml_invoice_data(f) ==
    IF ~f.doc.ok THEN NoneInfo
    ELSE [some |-> TRUE, num |-> f.doc.num, date |-> f.doc.date,
          seller |-> f.doc.seller, amount |-> f.doc.amount,
          filename |-> f.name, note |-> Note(<<>>)]

NoteImageOnly == Note(<<"warn_sign", "chuntu", "saomiaojian">>)   \* "image only / scan"

\* The least length of a first page that is read as text.
MinTextChars == 10

\* "wufapiaohao" ("no invoice number-") put before a status.
no_number_prefix(note) == [note EXCEPT !.words = <<"wufapiaohao">> \o note.words]

\* The record of lines 237-268 for a first page doc on which
\* find_amount_strict returned found.
pdf_record(doc, name, found) ==
    IF doc.chars < MinTextChars
    THEN [some |-> TRUE, num |-> <<>>, date |-> "", seller |-> <<>>, amount |-> 0,
          filename |-> name, note |-> NoteImageOnly]
    ELSE [some |-> TRUE, num |-> doc.num, date |-> doc.date, seller |-> doc.seller,
          amount |-> found.amount, filename |-> name,
          note |-> IF doc.num = <<>> /\ found.amount > 0
                      /\ "jinggao" \notin Range(found.note.words)
                   THEN no_number_prefix(found.note) ELSE found.note]

\* extract_data_from_pdf_simple: None when the file cannot be read.
extract_data_from_pdf_simple(f) ==
    IF ~f.doc.ok THEN NoneInfo ELSE pdf_record(f.doc, f.name, find_amount_strict(f.doc))

\* The words of a file name that make it a trip receipt's.
TripKeywords == {"xingcheng", "trip", "baoxiao"}

\* The labels of a text that make it an invoice's.
InvoiceLabels == {"fapiao_daima", "fapiao_haoma", "dianzi_fapiao"}

\* str.lower on a word of a file name.
lower(word) ==
    IF word \in {"TRIP", "Trip"} THEN "trip" ELSE word

\* is_trip_file(filename, text)
is_trip_file(name, doc) ==
    IF {lower(w) : w \in Range(name)} \cap TripKeywords # {}
    THEN ~(doc.chars > 0 /\ doc.labels \cap InvoiceLabels # {})
    ELSE FALSE

---------------------------------------------------------------------------
(* InvoiceVerifier                                                         *)
(*                                                                         *)
(* A row of the result and a record handed to check have the fields num,   *)
(* date, seller, amount (the extractors' keys and the columns alike).      *)

\* An invoice number counts when it is longer than this.
MinNumLen == 6

\* seller[:4] if len(seller) >= 4 else seller
short_seller(seller) == Prefix(seller, 4)

\* The key of processed_attrs: the amount to two decimals, the date, the name cut.
attr_key(r) == <<r.amount, r.date, short_seller(r.seller)>>

RECURSIVE last_with_num(_, _, _)
last_with_num(rows, n, k) ==
    IF rows[k].num = n THEN rows[k] ELSE last_with_num(rows, n, k - 1)

\* InvoiceVerifier.__init__ with the attribute key kept for rows without a number only.
InvoiceVerifier_attrs_of_unnumbered(rows) ==
    LET keys == {rows[k].num : k \in {j \in 1..Len(rows) : Len(rows[j].num) > MinNumLen}}
    IN  [processed_nums |->
             [n \in keys |->
                 LET r == last_with_num(rows, n, Len(rows))
                 IN  [amount |-> r.amount, date |-> r.date]],
         processed_attrs |->
             {attr_key(rows[k]) : k \in {j \in 1..Len(rows) : rows[j].num = <<>>}}]

\* InvoiceVerifier.__init__: processed_nums and processed_attrs of the rows.
InvoiceVerifier(rows) ==
    LET keys == {rows[k].num : k \in {j \in 1..Len(rows) : Len(rows[j].num) > MinNumLen}}
    IN  [processed_nums |->
             [n \in keys |->
                 LET r == last_with_num(rows, n, Len(rows))
                 IN  [amount |-> r.amount, date |-> r.date]],
         processed_attrs |-> {attr_key(rows[k]) : k \in 1..Len(rows)}]

\* InvoiceVerifier.check with the number match counting only when the amounts agree.
check_number_and_amount(v, raw_info) ==
    IF /\ Len(raw_info.num) > MinNumLen
       /\ raw_info.num \in DOMAIN v.processed_nums
       /\ Abs(v.processed_nums[raw_info.num].amount - raw_info.amount) < 10
    THEN TRUE
    ELSE IF raw_info.amount > 0
    THEN \/ attr_key(raw_info) \in v.processed_attrs
         \/ /\ raw_info.amount % 100 # 0
            /\ \E key \in v.processed_attrs :
                  key[1] = raw_info.amount /\ key[2] = raw_info.date
    ELSE FALSE

\* InvoiceVerifier.check
check(v, raw_info) ==
    IF Len(raw_info.num) > MinNumLen /\ raw_info.num \in DOMAIN v.processed_nums
    THEN IF Abs(v.processed_nums[raw_info.num].amount - raw_info.amount) < 10
         THEN TRUE
         ELSE TRUE
    ELSE IF raw_info.amount > 0
    THEN \/ attr_key(raw_info) \in v.processed_attrs
         \/ /\ raw_info.amount % 100 # 0
            /\ \E key \in v.processed_attrs :
                  key[1] = raw_info.amount /\ key[2] = raw_info.date
    ELSE FALSE

---------------------------------------------------------------------------
(* run_process_pipeline                                                    *)

NoteMerged == Note(<<"yi_hebing_xingchengdan">>)               \* "merged with trip receipt"
NoteMergeFailed == Note(<<"hebing_shibai", "baoliu_yuanjian">>) \* "merge failed - original kept"
NoteOnlyXml == Note(<<"jin_xml", "que_pdf">>)                  \* "XML only (PDF missing)"

FileAt(p) == CHOOSE f \in Range(files) : path(f) = p

\* abs(t['amount'] - amount) < 0.05, on floats (no two amounts used here are
\* exactly 0.05 apart, where the binary difference decides).
amounts_match(a, b) == Abs(a - b) < 5

\* candidates without `not x['used']`.
candidates_used_too(pool, fold) ==
    {k \in 1..Len(pool) : pool[k].folder = fold}

\* candidates without `x['folder'] == folder`.
candidates_any_folder(pool, fold) ==
    {k \in 1..Len(pool) : ~pool[k].used}

\* [x for x in trip_pool if x['folder'] == folder and not x['used']], as indices.
candidates(pool, fold) ==
    {k \in 1..Len(pool) : pool[k].folder = fold /\ ~pool[k].used}

Min(S) == CHOOSE k \in S : \A j \in S : k <= j

\* The XML loop's matched_trip: the first candidate of equal amount, 0 for None.
xml_matched_trip(pool, fold, amount) ==
    LET hits == {k \in candidates(pool, fold) : amounts_match(pool[k].amount, amount)}
    IN  IF hits = {} THEN 0 ELSE Min(hits)

\* pdf_matched_trip with a fallback: the one candidate left, when none has the amount.
pdf_matched_trip_or_only_one(pool, fold, amount) ==
    LET hits == {k \in candidates(pool, fold) :
                    amount > 0 /\ amounts_match(pool[k].amount, amount)}
    IN  IF hits # {} THEN Min(hits)
        ELSE IF Cardinality(candidates(pool, fold)) = 1 THEN Min(candidates(pool, fold))
        ELSE 0

\* The PDF loop's matched_trip: as above, for a principal amount above 0.
pdf_matched_trip(pool, fold, amount) ==
    LET hits == {k \in candidates(pool, fold) :
                    amount > 0 /\ amounts_match(pool[k].amount, amount)}
    IN  IF hits = {} THEN 0 ELSE Min(hits)

\* The first of cands whose base name holds the XML's stem or its number.
RECURSIVE target_pdf(_, _, _, _)
target_pdf(pool, k, xml, info) ==
    IF k > Len(pool) THEN 0
    ELSE IF /\ pool[k].folder = folder(path(xml))
            /\ \/ IsInfix(stem(xml.name), pool[k].path.name)
               \/ info.num # <<>> /\ IsInfix(info.num, pool[k].path.name)
         THEN k
    ELSE target_pdf(pool, k + 1, xml, info)

\* A file written to a directory replaces the one of the same name.
Write(dir, name, content) ==
    {e \in dir : e.name # name} \cup {[name |-> name, content |-> content]}

\* shutil.copy2(p, os.path.join(noxml_dir, os.path.basename(p)))
copy2(dir, p) == Write(dir, p.name, <<p>>)

\* merger.write(os.path.join(merged_dir, safe_name)): both files under the name
\* made of the number and the amount.
merge(dir, num, amount, principal, trip) ==
    Write(dir, <<num, amount>>, <<principal, trip>>)

\* Where the function is after the loop body at position k of phase: the loops
\* over pdf_files, xml_files and invoice_pdf_pool, then sections C and D.
After(phase, k, ninv) ==
    IF phase = "pool" /\ k <= Len(pdf_files(files)) THEN <<"pool", k>>
    ELSE IF phase = "pool" /\ Len(xml_files(files)) > 0 THEN <<"xml", 1>>
    ELSE IF phase = "xml" /\ k <= Len(xml_files(files)) THEN <<"xml", k>>
    ELSE IF phase \in {"pool", "xml"} /\ ninv > 0 THEN <<"pdf", 1>>
    ELSE IF phase = "pdf" /\ k <= ninv THEN <<"pdf", k>>
    ELSE <<"trips", 1>>

Goto(next) == pc' = next[1] /\ i' = next[2]

\* Lines 346-354 for a PDF that opens: the entry goes to one of the two pools.
pool_entry(pdf, amt, trip) ==
    /\ trip_pool' = IF trip
                    THEN Append(trip_pool,
                                [path |-> path(pdf), amount |-> amt,
                                 folder |-> folder(path(pdf)), used |-> FALSE])
                    ELSE trip_pool
    /\ invoice_pdf_pool' = IF trip THEN invoice_pdf_pool
                           ELSE Append(invoice_pdf_pool,
                                       [path |-> path(pdf), amount |-> amt,
                                        folder |-> folder(path(pdf))])

pool_body(pdf) ==
    IF ~pdf.doc.ok THEN UNCHANGED <<trip_pool, invoice_pdf_pool>>
    ELSE pool_entry(pdf, find_amount_strict(pdf.doc).amount,
                    is_trip_file(pdf.name, pdf.doc))

\* The body of `for pdf in pdf_files` (lines 344-355).
BuildPool ==
    /\ pc = "pool"
    /\ pool_body(pdf_files(files)[i])
    /\ Goto(After("pool", i + 1, Len(invoice_pdf_pool')))
    /\ UNCHANGED <<files, excel_rows, processed_source_files, merged_dir, noxml_dir,
                   missing_files, matched, arg, ret>>

\* Lines 367-402: the row of an XML whose PDF is entry tk of invoice_pdf_pool
\* and whose trip receipt is entry mk of trip_pool (0 for None).
xml_row(xml, info, tk, mk, merge_ok) ==
    /\ excel_rows' =
           Append(excel_rows,
                  [seq |-> Len(excel_rows) + 1, num |-> info.num, date |-> info.date,
                   seller |-> info.seller, amount |-> info.amount, source |-> "XML",
                   filename |-> xml.name,
                   note |-> IF tk = 0 THEN NoteOnlyXml
                            ELSE IF mk = 0 THEN NoteNormal
                            ELSE IF merge_ok THEN NoteMerged
                            ELSE NoteMergeFailed])
    /\ processed_source_files' =
           processed_source_files \cup {path(xml)}
           \cup (IF tk = 0 THEN {} ELSE {invoice_pdf_pool[tk].path})
           \cup (IF mk = 0 THEN {} ELSE {trip_pool[mk].path})
    /\ trip_pool' = IF mk = 0 THEN trip_pool ELSE [trip_pool EXCEPT ![mk].used = TRUE]
    /\ matched' = IF mk = 0 THEN matched
                  ELSE Append(matched,
                              [principal |-> invoice_pdf_pool[tk].path, trip |-> mk,
                               source |-> "XML", amount |-> info.amount])
    /\ merged_dir' = IF mk # 0 /\ merge_ok
                     THEN merge(merged_dir, info.num, info.amount,
                                invoice_pdf_pool[tk].path, trip_pool[mk].path)
                     ELSE merged_dir
    /\ noxml_dir' = IF tk # 0 /\ (mk = 0 \/ ~merge_ok)
                    THEN copy2(noxml_dir, invoice_pdf_pool[tk].path)
                    ELSE noxml_dir

xml_with_target(xml, info, tk, merge_ok) ==
    xml_row(xml, info, tk,
            IF tk = 0 THEN 0
            ELSE xml_matched_trip(trip_pool, folder(path(xml)), info.amount),
            merge_ok)

xml_body(xml, info, merge_ok) ==
    IF ~info.some
    THEN UNCHANGED <<trip_pool, excel_rows, processed_source_files, merged_dir,
                     noxml_dir, matched>>
    ELSE xml_with_target(xml, info, target_pdf(invoice_pdf_pool, 1, xml, info), merge_ok)

\* The body of `for xml in xml_files` (lines 362-402); merge_ok is whether
\* PdfWriter appends and writes without raising.
ProcessXml ==
    /\ pc = "xml"
    /\ \E merge_ok \in BOOLEAN :
          xml_body(xml_files(files)[i], parse_xml_invoice_data(xml_files(files)[i]),
                   merge_ok)
    /\ Goto(After("xml", i + 1, Len(invoice_pdf_pool)))
    /\ UNCHANGED <<files, invoice_pdf_pool, missing_files, arg, ret>>

\* Lines 410-434: the row of a PDF invoice whose trip receipt is entry mk of
\* trip_pool (0 for None).
pdf_row(inv, data, mk, merge_ok) ==
    /\ excel_rows' =
           Append(excel_rows,
                  [seq |-> Len(excel_rows) + 1, num |-> data.num, date |-> data.date,
                   seller |-> data.seller,
                   amount |-> IF mk # 0 /\ merge_ok /\ data.amount = 0
                              THEN inv.amount ELSE data.amount,
                   source |-> "", filename |-> data.filename,
                   note |-> IF mk = 0 THEN data.note
                            ELSE IF merge_ok THEN NoteMerged
                            ELSE NoteMergeFailed])
    /\ processed_source_files' =
           processed_source_files \cup {inv.path}
           \cup (IF mk = 0 THEN {} ELSE {trip_pool[mk].path})
    /\ trip_pool' = IF mk = 0 THEN trip_pool ELSE [trip_pool EXCEPT ![mk].used = TRUE]
    /\ matched' = IF mk = 0 THEN matched
                  ELSE Append(matched,
                              [principal |-> inv.path, trip |-> mk,
                               source |-> "PDF", amount |-> inv.amount])
    /\ merged_dir' = IF mk # 0 /\ merge_ok
                     THEN merge(merged_dir, data.num, inv.amount,
                                inv.path, trip_pool[mk].path)
                     ELSE merged_dir
    /\ noxml_dir' = IF mk = 0 \/ ~merge_ok THEN copy2(noxml_dir, inv.path)
                    ELSE noxml_dir

pdf_body(inv, data, merge_ok) ==
    IF inv.path \in processed_source_files \/ ~data.some
    THEN UNCHANGED <<trip_pool, excel_rows, processed_source_files, merged_dir,
                     noxml_dir, matched>>
    ELSE pdf_row(inv, data, pdf_matched_trip(trip_pool, inv.folder, inv.amount),
                 merge_ok)

\* The body of `for inv in invoice_pdf_pool` (lines 405-434).
ProcessPdf ==
    /\ pc = "pdf"
    /\ \E merge_ok \in BOOLEAN :
          pdf_body(invoice_pdf_pool[i],
                   extract_data_from_pdf_simple(FileAt(invoice_pdf_pool[i].path)),
                   merge_ok)
    /\ Goto(After("pdf", i + 1, Len(invoice_pdf_pool)))
    /\ UNCHANGED <<files, invoice_pdf_pool, missing_files, arg, ret>>

\* The copies of `for t in trip_pool` (lines 437-441), from entry k on.
RECURSIVE copy_unused(_, _, _)
copy_unused(dir, pool, k) ==
    IF k > Len(pool) THEN dir
    ELSE copy_unused(IF pool[k].used THEN dir ELSE copy2(dir, pool[k].path), pool, k + 1)

\* Section C: every unused trip receipt is copied to No_XML_PDFs.
TripFallback ==
    /\ pc = "trips"
    /\ processed_source_files' =
           processed_source_files
           \cup {trip_pool[k].path : k \in {j \in 1..Len(trip_pool) : ~trip_pool[j].used}}
    /\ noxml_dir' = copy_unused(noxml_dir, trip_pool, 1)
    /\ pc' = "verify"
    /\ UNCHANGED <<files, i, trip_pool, invoice_pdf_pool, excel_rows, merged_dir,
                   missing_files, matched, arg, ret>>

\* What the missing-files pass reads from f (lines 465-469).
raw_info_of(f) ==
    IF ext(f.name) = ".xml" THEN parse_xml_invoice_data(f)
    ELSE extract_data_from_pdf_simple(f)

\* is_missing at line 479, for a file read as raw_info and the verifier v.
is_missing(v, raw_info) ==
    ~raw_info.some \/ "chuntu" \in Range(raw_info.note.words) \/ ~check(v, raw_info)

\* The files of all that the pass (lines 462-480) reports with verifier v.
RECURSIVE missing_from(_, _, _)
missing_from(all, k, v) ==
    IF k > Len(all) THEN <<>>
    ELSE (IF ext(all[k].name) \in {".pdf", ".xml"} /\ is_missing(v, raw_info_of(all[k]))
          THEN <<path(all[k])>> ELSE <<>>)
         \o missing_from(all, k + 1, v)

\* Section D (lines 459-480): with a result, every PDF and XML of the input is
\* read again and checked against it; without one, nothing is reported.
find_missing(rows, all) ==
    IF rows = <<>> THEN <<>> ELSE missing_from(all, 1, InvoiceVerifier(rows))

Verify ==
    /\ pc = "verify"
    /\ missing_files' = find_missing(excel_rows, files)
    /\ pc' = "done"
    /\ UNCHANGED <<files, i, trip_pool, invoice_pdf_pool, excel_rows,
                   processed_source_files, merged_dir, noxml_dir, matched, arg, ret>>

---------------------------------------------------------------------------
(* The inputs                                                              *)

N1 == <<"2", "4", "1", "2", "0", "0", "0", "1">>
N2 == <<"2", "4", "1", "2", "0", "0", "0", "2">>
D1 == "2024-01-05"
D2 == "2024-02-07"
S1 == <<"Hua", "Xia", "Ke", "Ji", "Gong", "Si">>
S2 == <<"Hua", "Xia", "Ke", "Ji", "Jiu", "Dian">>

File(scope, sub, name, doc) == [scope |-> scope, sub |-> sub, name |-> name, doc |-> doc]

XmlDoc(ok, num, date, seller, amount) ==
    [ok |-> ok, chars |-> 0, num |-> num, date |-> date, seller |-> seller,
     amount |-> amount, cn |-> <<>>, lowers |-> <<>>, labels |-> {}]

PdfDoc(ok, chars, num, date, seller, cn, lowers, labels) ==
    [ok |-> ok, chars |-> chars, num |-> num, date |-> date, seller |-> seller,
     amount |-> 0, cn |-> cn, lowers |-> lowers, labels |-> labels]

\* What a text shows of an amount: numeral and figure for 283.81, the figure
\* alone for another amount, neither for 0.
CnOf(amount) == IF amount = 28381 THEN Example28381 ELSE <<>>

LowersOf(amount) == IF amount = 0 THEN <<>> ELSE <<amount>>

\* The page of an invoice and the page of a trip receipt.
InvoicePage(num, date, seller, amount) ==
    PdfDoc(TRUE, 40, num, date, seller, CnOf(amount), LowersOf(amount), {"dianzi_fapiao"})

TripPage(date, amount) ==
    PdfDoc(TRUE, 40, <<>>, date, <<>>, <<>>, LowersOf(amount), {})

\* os.walk lists a directory's files together, and a directory before the
\* directories inside it.
WalkOrder(all) ==
    \A k, l \in 1..Len(all) :
        k < l =>
            /\ path(all[k]) # path(all[l])
            /\ folder(path(all[k])) = folder(path(all[l])) =>
                   \A m \in k..l : folder(path(all[m])) = folder(path(all[k]))
            /\ all[k].scope = all[l].scope => ~(all[k].sub # "" /\ all[l].sub = "")

\* The most files of one run, for the matching and for the reconciliation.
MaxFiles == 4

\* An image or a scan: a first page without text.
ImagePage == PdfDoc(TRUE, 0, <<>>, "", <<>>, <<>>, <<>>, {})

\* The input trees: an XML invoice and its PDF, a PDF invoice of its own and
\* trip receipts, over two uploads (scopes 0 and 1) and a directory "d" inside
\* the first; amounts 0 (none read), 100.00 and 283.81.
MatchFiles ==
    {File(0, "", <<"a", ".xml">>, XmlDoc(TRUE, N1, D1, S1, amt)) : amt \in {0, 28381}}
    \cup {File(0, "", <<"a", ".xml">>, XmlDoc(FALSE, <<>>, "", <<>>, 0))}
    \cup {File(0, sub, <<"a", ".pdf">>, InvoicePage(N1, D1, S1, amt)) :
            sub \in {"", "d"}, amt \in {0, 28381}}
    \cup {File(scope, "", <<"b", ".pdf">>, InvoicePage(N2, D1, S2, amt)) :
            scope \in {0, 1}, amt \in {0, 28381}}
    \cup {File(0, "", <<"b", ".pdf">>, ImagePage)}
    \cup {File(loc[1], loc[2], <<"xingcheng", ".pdf">>, TripPage(D1, amt)) :
            loc \in {<<0, "">>, <<0, "d">>, <<1, "">>}, amt \in {0, 10000, 28381}}
    \cup {File(0, "", <<"xingcheng", ".pdf">>, TripPage(D2, 28381)),
          File(0, "", <<"xingcheng", ".pdf">>, ImagePage)}

\* os.walk appends the next file it finds (lines 334-336).
Walk(S) ==
    /\ pc = "walk"
    /\ Len(files) < MaxFiles
    /\ \E f \in S :
          /\ WalkOrder(Append(files, f))
          /\ files' = Append(files, f)
    /\ UNCHANGED <<pc, i, trip_pool, invoice_pdf_pool, excel_rows,
                   processed_source_files, merged_dir, noxml_dir, missing_files,
                   matched, arg, ret>>

\* The listing is complete: the function goes on to its first loop.
Begin ==
    /\ pc = "walk"
    /\ pc' = After("pool", 1, 0)[1]
    /\ UNCHANGED <<files, i, trip_pool, invoice_pdf_pool, excel_rows,
                   processed_source_files, merged_dir, noxml_dir, missing_files,
                   matched, arg, ret>>

Init ==
    /\ files = <<>>
    /\ pc = "walk"
    /\ i = 1
    /\ trip_pool = <<>>
    /\ invoice_pdf_pool = <<>>
    /\ excel_rows = <<>>
    /\ processed_source_files = {}
    /\ merged_dir = {}
    /\ noxml_dir = {}
    /\ missing_files = <<>>
    /\ matched = <<>>
    /\ arg = <<>>
    /\ ret = <<>>

Run == Begin \/ BuildPool \/ ProcessXml \/ ProcessPdf \/ TripFallback \/ Verify

Next == Walk(MatchFiles) \/ Run

Spec == Init /\ [][Next]_vars

---------------------------------------------------------------------------
(* The pure functions, each applied to the inputs of a bounded set         *)

Idle ==
    /\ files = <<>>
    /\ i = 1
    /\ trip_pool = <<>>
    /\ invoice_pdf_pool = <<>>
    /\ excel_rows = <<>>
    /\ processed_source_files = {}
    /\ merged_dir = {}
    /\ noxml_dir = {}
    /\ missing_files = <<>>
    /\ matched = <<>>

Return(value) ==
    /\ pc = "call"
    /\ pc' = "return"
    /\ ret' = value
    /\ UNCHANGED <<files, i, trip_pool, invoice_pdf_pool, excel_rows,
                   processed_source_files, merged_dir, noxml_dir, missing_files,
                   matched, arg>>

\* The digits an amount is made of: 0, 1 .. MaxSmallDigit and 9.
MaxSmallDigit == 1

SampleDigits == (0..MaxSmallDigit) \cup {9}

\* The integer parts below 100000000, digit by digit.
SampleYuan ==
    {d[1] + d[2] * 10 + d[3] * 100 + d[4] * 1000 + d[5] * 10000 + d[6] * 100000
        + d[7] * 1000000 + d[8] * 10000000 : d \in [1..8 -> SampleDigits]}

InitNumeral ==
    /\ Idle
    /\ pc = "call"
    /\ arg \in [yuan : SampleYuan, cents : {d[1] * 10 + d[2] : d \in [1..2 -> SampleDigits]}]
    /\ ret = <<>>

\* The amount is rendered and the string converted.
ConvertNumeral ==
    Return([cn_str |-> Render(arg.yuan, arg.cents),
            parts |-> cn_parts(Render(arg.yuan, arg.cents))])

SpecNumeral == InitNumeral /\ [][ConvertNumeral]_vars

\* The most figures lower_pattern finds in a text.
MaxLowers == 2

\* The texts of the amount extractor: numeral runs of no value, of 0.30 and of
\* 283.81, and figures around them and around the bounds.
AmountTexts ==
    [chars : {40},
     cn : {<<>>, <<"YUAN">>, <<"LING", "YUAN", "ZHENG">>, Render(0, 30), Example28381},
     lowers : SeqsUpTo({0, 20, 28371, 28372, 28381, 500000001}, MaxLowers)]
    \cup {[chars |-> 0, cn |-> <<>>, lowers |-> <<>>]}

InitAmount ==
    /\ Idle
    /\ pc = "call"
    /\ arg \in AmountTexts
    /\ ret = <<>>

FindAmount == Return(find_amount_strict(arg))

SpecAmount == InitAmount /\ [][FindAmount]_vars

\* The most rows of a result set.
MaxRows == 2

\* Rows and candidate records: no number, one of 6 and one of 8 characters;
\* amounts 0, 1.00 and 283.81; two dates; two names alike in their first four
\* characters and a short one.
SampleRecords ==
    [num : {<<>>, SubSeq(N1, 1, 6), N1}, amount : {0, 100, 28381}, date : {D1, D2},
     seller : {S1, S2, <<"Hua", "Xia">>}]

InitVerifier ==
    /\ Idle
    /\ pc = "call"
    /\ arg \in [rows : SeqsUpTo(SampleRecords, MaxRows), raw_info : SampleRecords]
    /\ ret = <<>>

CheckRecord == Return(check(InvoiceVerifier(arg.rows), arg.raw_info))

SpecVerifier == InitVerifier /\ [][CheckRecord]_vars

\* File names with and without a trip word, in either case, and first pages:
\* none, or a text with any of the three labels is_trip_file looks for and of
\* the label "total including tax", the number label followed by no, 7 or 8
\* digits.
ClassifierInputs ==
    [name : {<<"a", ".pdf">>, <<"xingcheng", ".pdf">>, <<"TRIP", ".pdf">>,
             <<"Trip", "a", ".pdf">>, <<"a", "baoxiao", ".pdf">>},
     doc : {[chars |-> 0, labels |-> {}, digits |-> 0]}
           \cup {t \in [chars : {40},
                        labels : SUBSET (InvoiceLabels \cup {"jiashui_heji"}),
                        digits : {0, 7, 8}] :
                    "fapiao_haoma" \notin t.labels => t.digits = 0}]

InitClassifier ==
    /\ Idle
    /\ pc = "call"
    /\ arg \in ClassifierInputs
    /\ ret = <<>>

Classify == Return(is_trip_file(arg.name, arg.doc))

SpecClassifier == InitClassifier /\ [][Classify]_vars

---------------------------------------------------------------------------
(* The matcher (C1 - C4), under Spec                                       *)

\* The principal the next step looks for a trip receipt for, if any: the loop
\* bodies reach their matching loop with this folder and this amount.
Attempts ==
    IF pc = "pdf" /\ invoice_pdf_pool[i].path \notin processed_source_files
    THEN {[source |-> "PDF", folder |-> invoice_pdf_pool[i].folder,
           amount |-> invoice_pdf_pool[i].amount]}
    ELSE IF /\ pc = "xml"
            /\ xml_files(files)[i].doc.ok
            /\ target_pdf(invoice_pdf_pool, 1, xml_files(files)[i],
                          parse_xml_invoice_data(xml_files(files)[i])) # 0
    THEN {[source |-> "XML", folder |-> folder(path(xml_files(files)[i])),
           amount |-> xml_files(files)[i].doc.amount]}
    ELSE {}

\* The entry the step has just selected, if any.
Selected == IF Len(matched') > Len(matched) THEN {matched'[Len(matched')].trip} ELSE {}

\* C1: no trip receipt entry is paired with more than one principal: in every
\* step, an entry's `used` never goes back to false, it becomes true exactly
\* when the entry is selected, a selected entry was unused, and no entry occurs
\* in two selections.
C1_UsedOnce ==
    [][/\ Len(trip_pool') >= Len(trip_pool)
       /\ \A k \in 1..Len(trip_pool) :
             /\ trip_pool[k].used => trip_pool'[k].used
             /\ k \in Selected => ~trip_pool[k].used
             /\ k \in Selected <=> (~trip_pool[k].used /\ trip_pool'[k].used)
       /\ \A a, b \in 1..Len(matched') :
             a # b => matched'[a].trip # matched'[b].trip]_vars

\* An XML invoice took the trip receipt, and a PDF invoice of the same folder
\* and the same amount, processed after it, got a row without it.
C1_Witness ==
    /\ pc = "done"
    /\ Len(matched) = 1
    /\ matched[1].source = "XML"
    /\ \E j \in 1..Len(invoice_pdf_pool) :
          /\ invoice_pdf_pool[j].path # matched[1].principal
          /\ invoice_pdf_pool[j].folder = trip_pool[matched[1].trip].folder
          /\ invoice_pdf_pool[j].amount = trip_pool[matched[1].trip].amount
          /\ invoice_pdf_pool[j].amount > 0
          /\ \E r \in 1..Len(excel_rows) :
                /\ excel_rows[r].filename = invoice_pdf_pool[j].path.name
                /\ excel_rows[r].source = ""
                /\ excel_rows[r].note # NoteMerged

\* C2: every matched (principal, trip receipt) pair comes from one upload.
C2_SameOrigin ==
    \A m \in 1..Len(matched) :
        origin(matched[m].principal) = origin(trip_pool[matched[m].trip].path)

\* A principal was paired although an earlier entry of the pool, of another
\* upload, had the same amount; that entry is unused when the run ends.
C2_Witness ==
    /\ pc = "done"
    /\ \E m \in 1..Len(matched) : \E k \in 1..Len(trip_pool) :
          /\ k < matched[m].trip
          /\ ~trip_pool[k].used
          /\ trip_pool[k].amount = matched[m].amount
          /\ matched[m].amount > 0
          /\ origin(trip_pool[k].path) # origin(matched[m].principal)

\* C3, as claimed: a principal paired by amount equality has an amount above 0.
C3_PositiveAmount == \A m \in 1..Len(matched) : matched[m].amount > 0

---------------------------------------------------------------------------
(* The verification index (C5, C6), under SpecVerifier                     *)

\* C5, as claimed: check is true of every row of the rows the verifier was
\* built from.
C5_Reflexive ==
    (pc = "return" /\ arg.raw_info \in Range(arg.rows)) => ret = TRUE

\* C5, amended: check is true of every row of the rows the verifier was built
\* from whose number is longer than 6 characters or whose amount is above 0; of
\* a row with a shorter (or no) number and amount 0 it is false.
C5_ReflexiveIfIdentified ==
    (pc = "return" /\ arg.raw_info \in Range(arg.rows))
        => (ret <=> (Len(arg.raw_info.num) > MinNumLen \/ arg.raw_info.amount > 0))

\* The second of two rows, with a number of 6 characters and the amount 1.00,
\* is found by its amount, date and name.
C5_Witness ==
    /\ pc = "return"
    /\ Len(arg.rows) = 2
    /\ arg.raw_info = arg.rows[2]
    /\ arg.raw_info # arg.rows[1]
    /\ Len(arg.raw_info.num) = MinNumLen
    /\ arg.raw_info.amount = 100
    /\ ret = TRUE

\* C6: a record whose number is longer than 6 characters and is the number of a
\* row the verifier was built from is found whatever its amount, date and name
\* are, and the missing-files pass does not report a readable document that
\* yields such a record.
C6_NumberAuthoritative ==
    (/\ pc = "return"
     /\ Len(arg.raw_info.num) > MinNumLen
     /\ \E k \in 1..Len(arg.rows) : arg.rows[k].num = arg.raw_info.num)
        => /\ ret = TRUE
           /\ ~is_missing(InvoiceVerifier(arg.rows),
                          [some |-> TRUE, note |-> NoteNormal, num |-> arg.raw_info.num,
                           date |-> arg.raw_info.date, seller |-> arg.raw_info.seller,
                           amount |-> arg.raw_info.amount])

\* The one row has the record's number, another amount, another date and
\* another name; the record's amount is 0.
C6_Witness ==
    /\ pc = "return"
    /\ Len(arg.rows) = 1
    /\ arg.rows[1].num = N1
    /\ arg.raw_info.num = N1
    /\ arg.rows[1].amount = 28381
    /\ arg.raw_info.amount = 0
    /\ arg.rows[1].date # arg.raw_info.date
    /\ short_seller(arg.rows[1].seller) # short_seller(arg.raw_info.seller)
    /\ ret = TRUE

---------------------------------------------------------------------------
(* The missing list and the run as a whole (C7, C8), under Spec            *)

\* C7, as claimed: when the run ends, every PDF of the input whose first page
\* has fewer than 10 characters of text is in the missing list.
C7_ImageOnlyMissing ==
    pc = "done"
        => \A k \in 1..Len(files) :
              (/\ ext(files[k].name) = ".pdf"
               /\ files[k].doc.ok
               /\ files[k].doc.chars < MinTextChars)
                  => path(files[k]) \in Range(missing_files)

\* C8, as claimed: an input of one PDF invoice and one trip receipt of the same
\* amount above 0 and the same upload, with no merge failing, ends with one
\* row, of the status "merged with trip receipt", and the trip receipt is not
\* in the missing list.
C8_Pairing ==
    (/\ pc = "done"
     /\ Len(files) = 2
     /\ Len(invoice_pdf_pool) = 1
     /\ Len(trip_pool) = 1
     /\ invoice_pdf_pool[1].amount > 0
     /\ trip_pool[1].amount = invoice_pdf_pool[1].amount
     /\ origin(trip_pool[1].path) = origin(invoice_pdf_pool[1].path)
     /\ \A r \in 1..Len(excel_rows) : excel_rows[r].note # NoteMergeFailed)
        => /\ Len(excel_rows) = 1
           /\ excel_rows[1].note = NoteMerged
           /\ trip_pool[1].path \notin Range(missing_files)

---------------------------------------------------------------------------
(* The amount extractor (C9), under SpecAmount                             *)

\* C9, as claimed, for a text that is not empty, with U the numeral amount and
\* L the figure (0 when not found): the result is U and a warning naming U and
\* L when both are found and differ by more than 0.1; U and a normal status
\* when U is found otherwise; L and "figure used" when only L is found; 0 and
\* "no amount read" when neither is.
C9_DecisionRule ==
    (pc = "return" /\ arg.chars > 0)
        => IF /\ upper_amount(arg.cn) > 0
              /\ first_lower(arg.lowers, 1) > 0
              /\ Abs(upper_amount(arg.cn) - first_lower(arg.lowers, 1)) > 10
           THEN ret = [amount |-> upper_amount(arg.cn),
                       note |-> NoteMismatch(upper_amount(arg.cn),
                                             first_lower(arg.lowers, 1))]
           ELSE IF upper_amount(arg.cn) > 0
           THEN /\ ret.amount = upper_amount(arg.cn)
                /\ ret.note \in {NoteNormal, NoteNormalNoLower}
           ELSE IF first_lower(arg.lowers, 1) > 0
           THEN ret = [amount |-> first_lower(arg.lowers, 1), note |-> NoteUsedLower]
           ELSE ret = [amount |-> 0, note |-> NoteNoAmount]

---------------------------------------------------------------------------
(* The numeral converter (C10), under SpecNumeral                          *)

\* C10: the numeral string rendered for an amount of at most two decimals below
\* 100000000 converts to that amount; the empty string converts to 0 and the
\* numeral of 283.81 to 283.81.
C10_RoundTrip ==
    /\ pc = "return" => ret.parts = [total |-> arg.yuan, cents |-> arg.cents]
    /\ cn_upper_to_float(<<>>) = 0
    /\ cn_upper_to_float(Example28381) = 28381

\* 10,901,001.09 went through: a numeral with WAN, zero placeholders and FEN.
C10_Witness ==
    /\ pc = "return"
    /\ arg = [yuan |-> 10901001, cents |-> 9]
    /\ {"WAN", "LING", "QIAN", "SHI", "YUAN", "FEN"} \subseteq Range(ret.cn_str)
    /\ ret.parts = [total |-> 10901001, cents |-> 9]

---------------------------------------------------------------------------
(* The result rows (C11), under Spec                                       *)

\* C11, as claimed: every row of the result has an amount of 0 or more, and a
\* row of amount 0 does not carry a normal status.
C11_RecordInvariant ==
    \A r \in 1..Len(excel_rows) :
        /\ excel_rows[r].amount >= 0
        /\ excel_rows[r].amount = 0
              => excel_rows[r].note \notin {NoteNormal, NoteNormalNoLower}

---------------------------------------------------------------------------
(* The classifier (C12), under SpecClassifier                              *)

\* C12, as claimed: is_trip_file is true exactly when the file name has a trip
\* word and the text has neither the number label followed by 8 or more digits
\* nor the label "total including tax".
C12_Classifier ==
    pc = "return"
        => (ret <=> /\ {lower(w) : w \in Range(arg.name)} \cap TripKeywords # {}
                    /\ ~("fapiao_haoma" \in arg.doc.labels /\ arg.doc.digits >= 8)
                    /\ "jiashui_heji" \notin arg.doc.labels)

---------------------------------------------------------------------------
(* The outputs (C13), under Spec                                           *)

\* C13, as claimed, for the receipts that were consumed: when the run ends,
\* every trip receipt of the pool with used = true is part of a file of
\* Merged_PDFs or is a file of No_XML_PDFs.
C13_UsedReceiptsKept ==
    pc = "done"
        => \A k \in {j \in 1..Len(trip_pool) : trip_pool[j].used} :
              \/ \E e \in merged_dir : trip_pool[k].path \in Range(e.content)
              \/ \E e \in noxml_dir : e.content = <<trip_pool[k].path>>

=============================================================================
